---- MODULE Spec2Model ----
(***************************************************************************)
(* A model of the binance-data-downloader pipeline:                        *)
(*   - the concurrent download / verify / extract engine                   *)
(*     (src/src/bn_downloader/main.py),                                    *)
(*   - the per-file conversion run (src/src/bn_converter/conv.py),         *)
(*   - the per-range batch conversion run (src/src/converter.py).          *)
(* Each engine has its own specification over the shared variables.        *)
(***************************************************************************)
EXTENDS Integers, Sequences, FiniteSets, TLC

VARIABLES
    \* ---- download engine ----
    cfg,        \* the request: symbols, data_types, start, end, max_workers
    main_pc,    \* position of download(): "start", "running", "returned", "exited"
    exit_code,  \* process exit code of the run ("none" while running)
    tasks,      \* the job list built by download()
    pc,         \* pc[i]: position of process_task for job i
    reason,     \* reason[i]: the exception job i logged ("" when none)
    upd,        \* upd[i]: number of pbar.update(1) calls made by job i
    pbar_n,     \* tqdm's completed counter
    pbar_total, \* tqdm's total
    fs,         \* the destination tree: path -> content, for the paths that exist
    fs0,        \* the destination tree as the run found it
    pre,        \* pre[i]: the canonical files of job i as they were when it started
    fetched,    \* fetched[i]: the archive job i downloaded in full (NoArchive before)
    \* ---- conversion runs ----
    mode,         \* "file": bn_converter.conv.convert; "batch": converter.convert
    cv_args,      \* start_date, end_date, symbol, data_type, rm
    tree0,        \* the raw .csv files on disk when the run started
    cv_pc,        \* position of convert()
    cv_exit,      \* exit code of the run ("none" while running)
    jobs,         \* the (symbol, data type) pairs to convert
    cv_j,         \* index of the pair the outer loop is at
    csv_files,    \* find_csv_files' result for that pair
    cv_f,         \* index of the file the inner loop is at
    failed_files, \* the list of that name (empty until line 139 creates it)
    total_files,  \* the counter of that name
    raw,          \* the raw .csv files on disk
    parquet,      \* the .parquet files on disk: path -> "complete" or "partial"
    exchange_info,\* batch mode: what get_exchange_info returned last
    fetches,      \* batch mode: number of get_exchange_info calls
    attempts,     \* the raw files (batch mode: the pairs) tried so far, in order
    raised,       \* the raw files (batch mode: the pairs) whose attempt raised
    removed,      \* the files logged as "Removed", each with the output written before
    read_back,    \* the outputs the run has read back after writing them
    \* ---- the typing of one file's columns ----
    pipeline,     \* "cli": bn_converter.conv.convert; "meta": bn_downloader.converter.convert
    ty_pc,        \* position in the typing steps
    ty_sym,       \* the symbol of the pair being converted
    served,       \* what the exchangeInfo endpoint answers during this invocation
    ty_info,      \* exchange_info as get_exchange_info returned it
    ty_prec,      \* <<price_precision, qty_precision>>
    df0,          \* the columns of the file as read
    df,           \* the columns of the data frame
    ty_k,         \* index of the column the loop is at
    tried,        \* tried[k]: the scale column k's decimal cast was called with
    \* ---- migration runs ----
    mg_pc,        \* position of migrate()
    mg_run,       \* which run of migrate this is: the first or the second
    pq0,          \* the parquet files on disk before the first run: file -> column names
    pq,           \* the parquet files on disk: file -> column names
    parquet_files,\* the list of that name
    rewrites      \* the (run, file) pairs for which write_parquet was called

dvars == <<cfg, fs0, main_pc, exit_code, tasks, pc, reason, upd, pbar_n, pbar_total, fs, pre, fetched>>

cvars == <<mode, cv_args, tree0, cv_pc, cv_exit, jobs, cv_j, csv_files, cv_f, failed_files,
           total_files, raw, parquet, exchange_info, fetches, attempts, raised, removed,
           read_back>>

tvars == <<pipeline, ty_pc, ty_sym, served, ty_info, ty_prec, df0, df, ty_k, tried>>

mvars == <<mg_pc, mg_run, pq0, pq, parquet_files, rewrites>>

vars == <<dvars, cvars, tvars, mvars>>

----------------------------------------------------------------------------
\* Bounds of the model.
MaxDay == 2
MaxTasks == 2
MaxWorkers == 2
MaxFiles == 2

MaxCols == 2

\* Longest date range of the job expansion, in days.
MaxSpan == 3

----------------------------------------------------------------------------
\* Helpers on sequences and finite maps.
Min(a, b) == IF a < b THEN a ELSE b

Range(s) == {s[k] : k \in DOMAIN s}

Without(f, p) == [q \in (DOMAIN f) \ {p} |-> f[q]]

Put(f, p, c) == (p :> c) @@ f

----------------------------------------------------------------------------
\* Names.  A file name is the sequence of its hyphen-delimited tokens, so that
\* name.split("-") is the name itself and "-".join(...) is a sequence again.
NoFile == "absent"

\* Python's None where a number may stand.
NoneInt == -1

DayStr(d) == <<"01", "02", "03", "04", "05", "06", "07", "08", "09">>[d]

\* current_date.strftime("%Y-%m-%d"), as hyphen-delimited tokens
DateTokens(d) == <<"2023", "01", DayStr(d)>>

IntervalTypes == {"premiumIndexKlines", "indexPriceKlines", "klines"}

Interval == "1d"

has_interval(t) == t.data_type \in IntervalTypes

\* dest_dir of a job: DEST / source / year / month / day / data_type
DestDir(t) == [date |-> t.date, data_type |-> t.data_type]

PathOf(dir, name) == [date |-> dir.date, data_type |-> dir.data_type, name |-> name]

\* Mutant: every archive saved under one name.
SharedZipName(t) == <<"download.zip">>

ZipName(t) == <<t.symbol \o ".zip">>

ChecksumName(t) == <<t.symbol \o ".zip.CHECKSUM">>

dest_path_zip(t) == PathOf(DestDir(t), ZipName(t))

dest_path_checksum(t) == PathOf(DestDir(t), ChecksumName(t))

\* Mutant: the canonical name always taken from the local archive's name.
NewFileNameFromStem(extracted_file_name, interval, zip_stem) == <<zip_stem \o ".csv">>

\* "-".join(extracted_file_name.split("-")[:2]) + ".csv" if has_interval
\* else f"{zip_path.stem}.csv"
NewFileName(extracted_file_name, interval, zip_stem) ==
    IF interval
    THEN LET n == Min(2, Len(extracted_file_name))
             head == SubSeq(extracted_file_name, 1, n)
         IN  [k \in 1..n |-> IF k = n THEN head[k] \o ".csv" ELSE head[k]]
    ELSE <<zip_stem \o ".csv">>

----------------------------------------------------------------------------
\* What the vendor serves.  An archive is its entry list, whether it opens as
\* a zip file, and the SHA-256 hex digest of its bytes (lower-case, as
\* hashlib's hexdigest() prints it); distinct contents have distinct digests.
StdEntry(t) ==
    IF has_interval(t)
    THEN <<t.symbol, Interval>> \o
         [k \in 1..3 |-> IF k = 3 THEN DateTokens(t.date)[k] \o ".csv" ELSE DateTokens(t.date)[k]]
    ELSE <<t.symbol, t.data_type>> \o
         [k \in 1..3 |-> IF k = 3 THEN DateTokens(t.date)[k] \o ".csv" ELSE DateTokens(t.date)[k]]

ExtraEntry(t) == <<t.symbol \o ".README.txt">>

\* An entry that already carries the name the raw file of a job without
\* interval is given.
NakedEntry(t) == <<t.symbol \o ".csv">>

RemoteArchives(t) ==
    { [entries |-> <<StdEntry(t)>>, valid |-> TRUE, sha |-> "3a7f"],
      [entries |-> <<StdEntry(t), ExtraEntry(t)>>, valid |-> TRUE, sha |-> "51b2"],
      [entries |-> <<NakedEntry(t)>>, valid |-> TRUE, sha |-> "77c1"],
      [entries |-> <<>>, valid |-> TRUE, sha |-> "e0d4"],
      [entries |-> <<>>, valid |-> FALSE, sha |-> "9c66"] }

\* No archive downloaded (yet).
NoArchive == [entries |-> <<>>, valid |-> FALSE, sha |-> ""]

\* A download cut short: the bytes written so far.
PartialArchive == [entries |-> <<>>, valid |-> FALSE, sha |-> "0bad"]

\* The digest the checksum file of an archive may carry as its first token:
\* the archive's digest in lower case, the same digest in upper case, or the
\* digest of other bytes.
Upper(h) ==
    CASE h = "3a7f" -> "3A7F"
      [] h = "51b2" -> "51B2"
      [] h = "e0d4" -> "E0D4"
      [] h = "9c66" -> "9C66"
      [] h = "0bad" -> "0BAD"
      [] h = "77c1" -> "77C1"
      [] OTHER -> h

Lower(h) ==
    CASE h = "3A7F" -> "3a7f"
      [] h = "51B2" -> "51b2"
      [] h = "E0D4" -> "e0d4"
      [] h = "9C66" -> "9c66"
      [] h = "0BAD" -> "0bad"
      [] h = "77C1" -> "77c1"
      [] OTHER -> h

\* The checksum file's text, as f.read().split() sees it.
RemoteChecksums(t) ==
    { <<a.sha, ZipName(t)[1]>> : a \in RemoteArchives(t) } \cup
    { <<Upper(a.sha), ZipName(t)[1]>> : a \in {x \in RemoteArchives(t) : x.entries = <<StdEntry(t)>>} } \cup
    { <<>> }

PartialChecksum == <<>>

----------------------------------------------------------------------------
\* No file's columns are being typed.
TypingIdle ==
    /\ pipeline = "idle"
    /\ ty_pc = "idle"
    /\ ty_sym = ""
    /\ served = <<>>
    /\ ty_info = <<>>
    /\ ty_prec = <<>>
    /\ df0 = <<>>
    /\ df = <<>>
    /\ ty_k = 0
    /\ tried = <<>>

\* No migration is running.
MigrateIdle ==
    /\ mg_pc = "idle"
    /\ mg_run = 0
    /\ pq0 = <<>>
    /\ pq = <<>>
    /\ parquet_files = <<>>
    /\ rewrites = {}

\* The conversion runs are not started while a download run is modelled.
ConvIdle ==
    /\ mode = "idle"
    /\ cv_args = <<>>
    /\ tree0 = {}
    /\ cv_pc = "idle"
    /\ cv_exit = "none"
    /\ jobs = <<>>
    /\ cv_j = 0
    /\ csv_files = <<>>
    /\ cv_f = 0
    /\ failed_files = <<>>
    /\ total_files = 0
    /\ raw = {}
    /\ parquet = <<>>
    /\ exchange_info = "unset"
    /\ fetches = 0
    /\ attempts = <<>>
    /\ raised = {}
    /\ removed = {}
    /\ read_back = {}

----------------------------------------------------------------------------
\* The download engine: download() and process_task().

Symbols == <<"BTCUSDT", "ETHUSDT">>

DataTypes == <<"klines", "trades">>

\* The lists config.toml may hold.
SymbolLists == {SubSeq(Symbols, 1, n) : n \in 0..Len(Symbols)}

DataTypeLists == {<<>>, <<DataTypes[1]>>, <<DataTypes[2]>>, DataTypes}

\* Mutant: the dates counted up from start.
BuildTasksAscending(c) ==
    LET days == IF c.end >= c.start THEN c.end - c.start + 1 ELSE 0
        ns == Len(c.symbols)
        nt == Len(c.data_types)
    IN  [k \in 1..(days * ns * nt) |->
            [date |-> c.start + ((k - 1) \div (ns * nt)),
             symbol |-> c.symbols[(((k - 1) \div nt) % ns) + 1],
             data_type |-> c.data_types[((k - 1) % nt) + 1]]]

\* tasks, as the three nested loops of download() append them:
\* dates from end down to start, then symbols, then data types.
BuildTasks(c) ==
    LET days == IF c.end >= c.start THEN c.end - c.start + 1 ELSE 0
        ns == Len(c.symbols)
        nt == Len(c.data_types)
    IN  [k \in 1..(days * ns * nt) |->
            [date |-> c.end - ((k - 1) \div (ns * nt)),
             symbol |-> c.symbols[(((k - 1) \div nt) % ns) + 1],
             data_type |-> c.data_types[((k - 1) % nt) + 1]]]

Jobs == DOMAIN tasks

\* The canonical raw path(s) of a job: the new_file_path verify_and_unzip
\* renames the first entry of the job's archive to.
CanonicalNames(t) ==
    { NewFileName(a.entries[1], has_interval(t), t.symbol) :
        a \in {x \in RemoteArchives(t) : x.entries # <<>>} }

CanonicalPaths(t) == { PathOf(DestDir(t), n) : n \in CanonicalNames(t) }

ContentAt(f, p) == IF p \in DOMAIN f THEN f[p] ELSE NoFile

Snapshot(f, t) == [p \in CanonicalPaths(t) |-> ContentAt(f, p)]

\* A tree left by an earlier run: nothing, or an older canonical file per job.
OldTree(ts) ==
    LET ps == UNION {CanonicalPaths(ts[k]) : k \in DOMAIN ts}
    IN  [p \in ps |-> "old csv"]

\* A tree left by an earlier attempt whose archive download broke off.
LeftTree(ts) ==
    [p \in {dest_path_zip(ts[k]) : k \in DOMAIN ts} |-> PartialArchive]

\* A tree left by an earlier attempt that ended in a checksum mismatch: an
\* archive and a checksum file that does not belong to it.
StaleTree(ts) ==
    LET zips == {dest_path_zip(ts[k]) : k \in DOMAIN ts}
        sums == {dest_path_checksum(ts[k]) : k \in DOMAIN ts}
    IN  [p \in zips \cup sums |->
            IF p \in zips THEN [entries |-> <<>>, valid |-> TRUE, sha |-> "e0d4"]
            ELSE <<"0bad">>]

InitDownload ==
    /\ cfg \in [symbols : SymbolLists, data_types : DataTypeLists,
                start : 1..MaxDay, end : 1..MaxDay, max_workers : 1..MaxWorkers]
    /\ Len(BuildTasks(cfg)) <= MaxTasks
    /\ main_pc = "start"
    /\ exit_code = "none"
    /\ tasks = <<>>
    /\ pc = <<>>
    /\ reason = <<>>
    /\ upd = <<>>
    /\ pre = <<>>
    /\ fetched = <<>>
    /\ pbar_n = 0
    /\ pbar_total = 0
    /\ fs \in {<<>>, OldTree(BuildTasks(cfg)), LeftTree(BuildTasks(cfg)),
               StaleTree(BuildTasks(cfg)) @@ OldTree(BuildTasks(cfg))}
    /\ fs0 = fs
    /\ ConvIdle
    /\ TypingIdle
    /\ MigrateIdle

\* download(): the configuration check, then the job list and the progress bar.
DownloadStart ==
    /\ main_pc = "start"
    /\ IF cfg.symbols = <<>> \/ cfg.data_types = <<>>
       THEN /\ main_pc' = "exited"
            /\ exit_code' = 1
            /\ UNCHANGED <<tasks, pc, reason, upd, pre, fetched, pbar_total>>
       ELSE /\ main_pc' = "running"
            /\ tasks' = BuildTasks(cfg)
            /\ pc' = [k \in DOMAIN BuildTasks(cfg) |-> "queued"]
            /\ reason' = [k \in DOMAIN BuildTasks(cfg) |-> ""]
            /\ upd' = [k \in DOMAIN BuildTasks(cfg) |-> 0]
            /\ pre' = [k \in DOMAIN BuildTasks(cfg) |-> <<>>]
            /\ fetched' = [k \in DOMAIN BuildTasks(cfg) |-> NoArchive]
            /\ pbar_total' = Len(BuildTasks(cfg))
            /\ UNCHANGED exit_code
    /\ UNCHANGED <<cfg, fs0, pbar_n, fs, cvars, tvars, mvars>>

\* download() up to the submission of the jobs, for date ranges of up to
\* MaxSpan days and no limit on the number of jobs.
InitExpand ==
    /\ cfg \in [symbols : SymbolLists, data_types : DataTypeLists,
                start : 1..MaxSpan, end : 1..MaxSpan, max_workers : 1..MaxWorkers]
    /\ main_pc = "start"
    /\ exit_code = "none"
    /\ tasks = <<>>
    /\ pc = <<>>
    /\ reason = <<>>
    /\ upd = <<>>
    /\ pre = <<>>
    /\ fetched = <<>>
    /\ pbar_n = 0
    /\ pbar_total = 0
    /\ fs = <<>>
    /\ fs0 = fs
    /\ ConvIdle
    /\ TypingIdle
    /\ MigrateIdle

SpecExpand == InitExpand /\ [][DownloadStart]_vars

\* The jobs a worker thread of the pool is executing.
Running == {k \in Jobs : pc[k] \notin {"queued", "done"}}

Goto(i, p) == pc' = [pc EXCEPT ![i] = p]

\* A step of process_task raised: the except clause logs the failure, the
\* finally clause is next.
Raise(i, r) ==
    /\ pc' = [pc EXCEPT ![i] = "finally"]
    /\ reason' = [reason EXCEPT ![i] = r]

\* A free worker takes the next job of the queue, builds its URLs and paths
\* and creates dest_dir.
StartTask(i) ==
    /\ main_pc = "running"
    /\ pc[i] = "queued"
    /\ \A k \in Jobs : k < i => pc[k] # "queued"
    /\ Cardinality(Running) < cfg.max_workers
    /\ pre' = [pre EXCEPT ![i] = Snapshot(fs, tasks[i])]
    /\ \/ Goto(i, "get_zip") /\ UNCHANGED reason
       \/ Raise(i, "OSError")
    /\ UNCHANGED <<cfg, fs0, main_pc, exit_code, tasks, upd, pbar_n, pbar_total, fs, fetched, cvars, tvars, mvars>>

\* download_file(url_zip, dest_path_zip): the whole archive, an error before
\* the file is opened, an error while streaming, or no answer at all
\* (requests.get is given no timeout).
DownloadZip(i) ==
    /\ pc[i] = "get_zip"
    /\ \/ \E a \in RemoteArchives(tasks[i]) :
            /\ fs' = Put(fs, dest_path_zip(tasks[i]), a)
            /\ fetched' = [fetched EXCEPT ![i] = a]
            /\ Goto(i, "get_checksum")
            /\ UNCHANGED reason
       \/ /\ Raise(i, "RequestException")
          /\ UNCHANGED <<fs, fetched>>
       \/ /\ fs' = Put(fs, dest_path_zip(tasks[i]), PartialArchive)
          /\ Raise(i, "RequestException")
          /\ UNCHANGED fetched
       \/ /\ Goto(i, "hung")
          /\ UNCHANGED <<reason, fs, fetched>>
    /\ UNCHANGED <<cfg, fs0, main_pc, exit_code, tasks, upd, pbar_n, pbar_total, pre, cvars, tvars, mvars>>

\* download_file(url_checksum, dest_path_checksum)
DownloadChecksum(i) ==
    /\ pc[i] = "get_checksum"
    /\ \/ \E c \in RemoteChecksums(tasks[i]) :
            /\ fs' = Put(fs, dest_path_checksum(tasks[i]), c)
            /\ Goto(i, "verify")
            /\ UNCHANGED reason
       \/ /\ Raise(i, "RequestException")
          /\ UNCHANGED fs
       \/ /\ fs' = Put(fs, dest_path_checksum(tasks[i]), PartialChecksum)
          /\ Raise(i, "RequestException")
       \/ /\ Goto(i, "hung")
          /\ UNCHANGED <<reason, fs>>
    /\ UNCHANGED <<cfg, fs0, main_pc, exit_code, tasks, upd, pbar_n, pbar_total, pre, fetched, cvars, tvars, mvars>>

\* hashlib.sha256 over the archive's bytes, hexdigest()
calculated_checksum(archive) == archive.sha

\* Mutant: the comparison done on lower-cased digests.
ChecksumMatchesIgnoreCase(expected, calculated) == Lower(expected) = Lower(calculated)

\* expected_checksum == calculated_checksum
ChecksumMatches(expected, calculated) == expected = calculated

\* Mutant: the mismatching pair removed before the error is raised.
OnMismatchCleanup(i) ==
    /\ Raise(i, "ChecksumMismatch")
    /\ fs' = Without(Without(fs, dest_path_checksum(tasks[i])), dest_path_zip(tasks[i]))

\* Mutant: the mismatch logged only, the extraction next.
OnMismatchContinue(i) ==
    /\ Goto(i, "extract")
    /\ UNCHANGED <<reason, fs>>

\* The else branch of the comparison: the mismatch is logged and raised as a
\* ValueError; no file is touched.
OnMismatch(i) ==
    /\ Raise(i, "ChecksumMismatch")
    /\ UNCHANGED fs

\* verify_and_unzip, up to the comparison: the first token of the checksum
\* file against the archive's digest.
Verify(i) ==
    /\ pc[i] = "verify"
    /\ LET tokens == fs[dest_path_checksum(tasks[i])]
           archive == fs[dest_path_zip(tasks[i])]
       IN  IF tokens = <<>>
           THEN Raise(i, "IndexError") /\ UNCHANGED fs
           ELSE IF ChecksumMatches(tokens[1], calculated_checksum(archive))
                THEN Goto(i, "extract") /\ UNCHANGED <<reason, fs>>
                ELSE OnMismatch(i)
    /\ UNCHANGED <<cfg, fs0, main_pc, exit_code, tasks, upd, pbar_n, pbar_total, pre, fetched, cvars, tvars, mvars>>

\* zip_ref.extractall(zip_path.parent): every entry written under dest_dir.
ExtractAll(f, dir, entries) ==
    [p \in (DOMAIN f) \cup {PathOf(dir, e) : e \in Range(entries)} |->
        IF p \in {PathOf(dir, e) : e \in Range(entries)} THEN "csv" ELSE f[p]]

\* zipfile.ZipFile(zip_path), namelist()[0], extractall
Extract(i) ==
    /\ pc[i] = "extract"
    /\ LET archive == fs[dest_path_zip(tasks[i])]
           dir == DestDir(tasks[i])
       IN  IF ~archive.valid
           THEN Raise(i, "BadZipFile") /\ UNCHANGED fs
           ELSE IF archive.entries = <<>>
                THEN Raise(i, "IndexError") /\ UNCHANGED fs
                ELSE \/ /\ fs' = ExtractAll(fs, dir, archive.entries)
                        /\ Goto(i, "rename")
                        /\ UNCHANGED reason
                     \/ /\ fs' = Put(fs, PathOf(dir, archive.entries[1]), "truncated csv")
                        /\ Raise(i, "OSError")
    /\ UNCHANGED <<cfg, fs0, main_pc, exit_code, tasks, upd, pbar_n, pbar_total, pre, fetched, cvars, tvars, mvars>>

\* Mutant: the entry copied to its new name and left in place.
CopyFile(f, src, dst) == Put(f, dst, f[src])

\* Mutant: a rename that leaves an existing target alone.
RenameIfAbsent(f, src, dst) ==
    IF src = dst \/ dst \in DOMAIN f THEN f ELSE Put(Without(f, src), dst, f[src])

\* os.rename(src, dst): dst replaced by src, src gone.
RenameFile(f, src, dst) ==
    IF src = dst THEN f ELSE Put(Without(f, src), dst, f[src])

\* os.rename(extracted_file_path, new_file_path)
Rename(i) ==
    /\ pc[i] = "rename"
    /\ LET t == tasks[i]
           extracted_file_name == fs[dest_path_zip(t)].entries[1]
           new_file_name == NewFileName(extracted_file_name, has_interval(t), t.symbol)
       IN  \/ /\ fs' = RenameFile(fs, PathOf(DestDir(t), extracted_file_name),
                                  PathOf(DestDir(t), new_file_name))
              /\ Goto(i, "unlink_checksum")
              /\ UNCHANGED reason
           \/ /\ Raise(i, "OSError")
              /\ UNCHANGED fs
    /\ UNCHANGED <<cfg, fs0, main_pc, exit_code, tasks, upd, pbar_n, pbar_total, pre, fetched, cvars, tvars, mvars>>

\* checksum_path.unlink()
UnlinkChecksum(i) ==
    /\ pc[i] = "unlink_checksum"
    /\ \/ /\ fs' = Without(fs, dest_path_checksum(tasks[i]))
          /\ Goto(i, "unlink_zip")
          /\ UNCHANGED reason
       \/ /\ Raise(i, "OSError")
          /\ UNCHANGED fs
    /\ UNCHANGED <<cfg, fs0, main_pc, exit_code, tasks, upd, pbar_n, pbar_total, pre, fetched, cvars, tvars, mvars>>

\* zip_path.unlink(); verify_and_unzip returns and process_task's try ends.
UnlinkZip(i) ==
    /\ pc[i] = "unlink_zip"
    /\ \/ /\ fs' = Without(fs, dest_path_zip(tasks[i]))
          /\ Goto(i, "finally")
          /\ UNCHANGED reason
       \/ /\ Raise(i, "OSError")
          /\ UNCHANGED fs
    /\ UNCHANGED <<cfg, fs0, main_pc, exit_code, tasks, upd, pbar_n, pbar_total, pre, fetched, cvars, tvars, mvars>>

\* Mutant: the progress update made at the end of the try block, so a job
\* that raised is not counted.
UpdateOnSuccessOnly(i) ==
    /\ pc[i] = "finally"
    /\ pbar_n' = IF reason[i] = "" THEN pbar_n + 1 ELSE pbar_n
    /\ upd' = [upd EXCEPT ![i] = IF reason[i] = "" THEN @ + 1 ELSE @]
    /\ Goto(i, "done")
    /\ UNCHANGED <<cfg, fs0, main_pc, exit_code, tasks, reason, pbar_total, fs, pre, fetched, cvars, tvars, mvars>>

\* finally: pbar.update(1)
Finally(i) ==
    /\ pc[i] = "finally"
    /\ pbar_n' = pbar_n + 1
    /\ upd' = [upd EXCEPT ![i] = @ + 1]
    /\ Goto(i, "done")
    /\ UNCHANGED <<cfg, fs0, main_pc, exit_code, tasks, reason, pbar_total, fs, pre, fetched, cvars, tvars, mvars>>

\* Mutant: the run given up as soon as one job has failed.
DownloadReturnOnFailure ==
    /\ main_pc = "running"
    /\ \/ \A k \in Jobs : pc[k] = "done"
       \/ \E k \in Jobs : pc[k] = "done" /\ reason[k] # ""
    /\ main_pc' = "returned"
    /\ exit_code' = 0
    /\ UNCHANGED <<cfg, fs0, tasks, pc, reason, upd, pbar_n, pbar_total, fs, pre, fetched, cvars, tvars, mvars>>

\* The executor's with-block ends (shutdown(wait=True)) once every submitted
\* job has run; download() then returns and the process exits normally.
DownloadReturn ==
    /\ main_pc = "running"
    /\ \A k \in Jobs : pc[k] = "done"
    /\ main_pc' = "returned"
    /\ exit_code' = 0
    /\ UNCHANGED <<cfg, fs0, tasks, pc, reason, upd, pbar_n, pbar_total, fs, pre, fetched, cvars, tvars, mvars>>

NextDownload ==
    \/ DownloadStart
    \/ \E i \in Jobs : StartTask(i)
    \/ \E i \in Jobs : DownloadZip(i)
    \/ \E i \in Jobs : DownloadChecksum(i)
    \/ \E i \in Jobs : Verify(i)
    \/ \E i \in Jobs : Extract(i)
    \/ \E i \in Jobs : Rename(i)
    \/ \E i \in Jobs : UnlinkChecksum(i)
    \/ \E i \in Jobs : UnlinkZip(i)
    \/ \E i \in Jobs : Finally(i)
    \/ DownloadReturn

SpecDownload == InitDownload /\ [][NextDownload]_vars

\* The worker threads and the main thread keep being scheduled: a step that
\* stays possible is eventually taken.  A request that never answers offers
\* no step.
FairDownload == SpecDownload /\ WF_vars(NextDownload)

----------------------------------------------------------------------------
\* The conversion runs: bn_converter.conv.convert (one output per raw file)
\* and converter.convert (one output per pair and date range).

\* No download run while a conversion run is modelled.
DownloadIdle ==
    /\ cfg = <<>>
    /\ main_pc = "idle"
    /\ exit_code = "none"
    /\ tasks = <<>>
    /\ pc = <<>>
    /\ reason = <<>>
    /\ upd = <<>>
    /\ pre = <<>>
    /\ fetched = <<>>
    /\ pbar_n = 0
    /\ pbar_total = 0
    /\ fs = <<>>
    /\ fs0 = <<>>

\* A raw file's stem is a sequence of chunks, so that the glob symbol + "*.csv"
\* is a prefix test.  None and "" are both the empty value.
None == <<>>

NoType == ""

Stems == {<<"BTCUSDT">>, <<"BTCUSDT", "_240927">>}

ConvTypes == {"klines", "trades"}

ConvDays == {1, 2}

\* Every raw file the tree may hold: {root}/{source}/YYYY/MM/DD/{data_type}/{stem}.csv
RawUniverse == [date : ConvDays, data_type : ConvTypes, stem : Stems]

\* Python's order on the strings involved.
StemRank(st) == IF st = <<"BTCUSDT">> THEN 1 ELSE 2

TypeRank(ty) == IF ty = "klines" THEN 1 ELSE 2

JobKey(j) == StemRank(j[1]) * 10 + TypeRank(j[2])

FileKey(f) == f.date * 100 + TypeRank(f.data_type) * 10 + StemRank(f.stem)

\* sorted(...) of a set whose members have distinct keys
RECURSIVE SortedJobs(_)
SortedJobs(S) ==
    IF S = {} THEN <<>>
    ELSE LET m == CHOOSE x \in S : \A y \in S : JobKey(x) <= JobKey(y)
         IN  <<m>> \o SortedJobs(S \ {m})

RECURSIVE SortedFiles(_)
SortedFiles(S) ==
    IF S = {} THEN <<>>
    ELSE LET m == CHOOSE x \in S : \A y \in S : FileKey(x) <= FileKey(y)
         IN  <<m>> \o SortedFiles(S \ {m})

IsPrefix(a, b) == Len(a) <= Len(b) /\ SubSeq(b, 1, Len(a)) = a

\* end_dt: the end date given, or the start date when end_date is None
end_dt(a) == IF a.end = NoneInt THEN a.start ELSE a.end

InRange(f, a) == a.start <= f.date /\ f.date <= end_dt(a)

\* find_all_symbols_and_types(start_dt, end_dt)
find_all_symbols_and_types(tree, a) ==
    SortedJobs({ <<f.stem, f.data_type>> : f \in {x \in tree : InRange(x, a)} })

\* find_csv_files(symbol, data_type, start_dt, end_dt)
find_csv_files(tree, symbol, data_type, a) ==
    SortedFiles({ f \in tree :
                    /\ data_type # NoType => f.data_type = data_type
                    /\ IsPrefix(symbol, f.stem)
                    /\ InRange(f, a) })

\* Mutant: the discovered pairs taken as they are, whatever was given.
DetermineJobsUnfiltered(tree, a) ==
    IF a.symbol # None /\ a.data_type # NoType
    THEN << <<a.symbol, a.data_type>> >>
    ELSE find_all_symbols_and_types(tree, a)

\* "Determine what to convert"
DetermineJobs(tree, a) ==
    IF a.symbol # None /\ a.data_type # NoType
    THEN << <<a.symbol, a.data_type>> >>
    ELSE LET all == find_all_symbols_and_types(tree, a)
             KeepSym(j) == a.symbol # None => j[1] = a.symbol
             KeepType(j) == a.data_type # NoType => j[2] = a.data_type
         IN  SelectSeq(SelectSeq(all, KeepSym), KeepType)

\* csv_file.with_suffix(".parquet")
PerFileOutput(f) == [kind |-> "file", date |-> f.date, data_type |-> f.data_type, stem |-> f.stem]

\* DATA_DIR / f"{sym}-{dtype}-{start_date}_to_{end_date}.parquet", start_date
\* and end_date being the arguments as given (None prints as "None").
BatchOutput(j, a) == [kind |-> "range", sym |-> j[1], data_type |-> j[2],
                      start |-> a.start, end |-> a.end]

InitConvert ==
    /\ DownloadIdle
    /\ TypingIdle
    /\ MigrateIdle
    /\ mode \in {"file", "batch"}
    /\ cv_args \in [start : ConvDays, end : ConvDays \cup {NoneInt}, symbol : {None} \cup Stems,
                    data_type : {NoType} \cup ConvTypes, rm : BOOLEAN]
    /\ raw \in {t \in SUBSET RawUniverse : Cardinality(t) <= MaxFiles}
    /\ tree0 = raw
    /\ cv_pc = "start"
    /\ cv_exit = "none"
    /\ jobs = <<>>
    /\ cv_j = 0
    /\ csv_files = <<>>
    /\ cv_f = 0
    /\ failed_files = <<>>
    /\ total_files = 0
    /\ parquet = <<>>
    /\ exchange_info = "unset"
    /\ fetches = 0
    /\ attempts = <<>>
    /\ raised = {}
    /\ removed = {}
    /\ read_back = {}

CurJob == jobs[cv_j]

CurFile == csv_files[cv_f]

\* ---- per-file mode ----

\* conv.py 125-140: the job set; none -> Exit(1) before anything is touched.
ConvStart ==
    /\ mode = "file"
    /\ cv_pc = "start"
    /\ jobs' = DetermineJobs(raw, cv_args)
    /\ IF jobs' = <<>>
       THEN /\ cv_pc' = "done"
            /\ cv_exit' = 1
            /\ UNCHANGED failed_files
       ELSE /\ cv_pc' = "job"
            /\ failed_files' = <<>>
            /\ UNCHANGED cv_exit
    /\ UNCHANGED <<dvars, tvars, mvars, mode, cv_args, tree0, cv_j, csv_files, cv_f, total_files, raw,
                   parquet, exchange_info, fetches, attempts, raised, removed, read_back>>

\* conv.py 142-153: the next pair and its files; a pair without files is skipped.
ConvNextJob ==
    /\ mode = "file"
    /\ cv_pc = "job"
    /\ IF cv_j = Len(jobs)
       THEN /\ cv_pc' = "summary"
            /\ UNCHANGED <<cv_j, csv_files, cv_f, total_files>>
       ELSE LET j == jobs[cv_j + 1]
                found == find_csv_files(raw, j[1], j[2], cv_args)
            IN  /\ cv_j' = cv_j + 1
                /\ csv_files' = found
                /\ IF found = <<>>
                   THEN UNCHANGED <<cv_pc, cv_f, total_files>>
                   ELSE /\ total_files' = total_files + Len(found)
                        /\ cv_f' = 1
                        /\ cv_pc' = "read"
    /\ UNCHANGED <<dvars, tvars, mvars, mode, cv_args, tree0, cv_exit, jobs, failed_files, raw, parquet,
                   exchange_info, fetches, attempts, raised, removed, read_back>>

\* The inner loop moves on: the next file of the pair, or the next pair.
NextFile ==
    IF cv_f < Len(csv_files)
    THEN cv_f' = cv_f + 1 /\ cv_pc' = "read"
    ELSE cv_pc' = "job" /\ UNCHANGED cv_f

\* An exception leaves the try block of the file at hand.
RaiseFile ==
    /\ cv_pc' = "except"
    /\ raised' = raised \cup {CurFile}

\* conv.py 156: pl.read_csv(csv_file)
ConvRead ==
    /\ mode = "file"
    /\ cv_pc = "read"
    /\ attempts' = Append(attempts, CurFile)
    /\ \/ cv_pc' = "normalize" /\ UNCHANGED raised
       \/ RaiseFile
    /\ UNCHANGED <<dvars, tvars, mvars, mode, cv_args, tree0, cv_exit, jobs, cv_j, csv_files, cv_f,
                   failed_files, total_files, raw, parquet, exchange_info, fetches,
                   removed, read_back>>

\* conv.py 158-238: renaming, schema types, decimal guess, reshaping per data
\* type; what these raise past their own handlers reaches the outer except.
ConvNormalize ==
    /\ mode = "file"
    /\ cv_pc = "normalize"
    /\ \/ cv_pc' = "write" /\ UNCHANGED raised
       \/ RaiseFile
    /\ UNCHANGED <<dvars, tvars, mvars, mode, cv_args, tree0, cv_exit, jobs, cv_j, csv_files, cv_f,
                   failed_files, total_files, raw, parquet, exchange_info, fetches,
                   attempts, removed, read_back>>

\* Mutant: the source removed in a finally clause, whether the write worked or not.
ConvWriteRemoveAnyway ==
    /\ mode = "file"
    /\ cv_pc = "write"
    /\ \/ /\ parquet' = Put(parquet, PerFileOutput(CurFile), "complete")
          /\ IF cv_args.rm THEN cv_pc' = "remove" /\ UNCHANGED cv_f ELSE NextFile
          /\ UNCHANGED <<raw, removed, raised>>
       \/ /\ parquet' = Put(parquet, PerFileOutput(CurFile), "partial")
          /\ raw' = IF cv_args.rm THEN raw \ {CurFile} ELSE raw
          /\ removed' = IF cv_args.rm
                        THEN removed \cup {[file |-> CurFile, out |-> PerFileOutput(CurFile)]}
                        ELSE removed
          /\ RaiseFile
          /\ UNCHANGED cv_f
    /\ UNCHANGED <<dvars, tvars, mvars, mode, cv_args, tree0, cv_exit, jobs, cv_j, csv_files, failed_files,
                   total_files, exchange_info, fetches, attempts, read_back>>

\* conv.py 240-242: df.write_parquet(output_file).  The file is written in
\* place: a write that raises leaves nothing new or a partial file.
ConvWrite ==
    /\ mode = "file"
    /\ cv_pc = "write"
    /\ \/ /\ parquet' = Put(parquet, PerFileOutput(CurFile), "complete")
          /\ IF cv_args.rm THEN cv_pc' = "remove" /\ UNCHANGED cv_f ELSE NextFile
          /\ UNCHANGED raised
       \/ /\ parquet' = Put(parquet, PerFileOutput(CurFile), "partial")
          /\ RaiseFile
          /\ UNCHANGED cv_f
       \/ /\ RaiseFile
          /\ UNCHANGED <<parquet, cv_f>>
    /\ UNCHANGED <<dvars, tvars, mvars, mode, cv_args, tree0, cv_exit, jobs, cv_j, csv_files, failed_files,
                   total_files, raw, exchange_info, fetches, attempts, removed, read_back>>

\* Mutant: a failed unlink reaches the handler of the file.
ConvRemoveEscalating ==
    /\ mode = "file"
    /\ cv_pc = "remove"
    /\ \/ /\ raw' = raw \ {CurFile}
          /\ removed' = removed \cup {[file |-> CurFile, out |-> PerFileOutput(CurFile)]}
          /\ NextFile
          /\ UNCHANGED raised
       \/ /\ RaiseFile
          /\ UNCHANGED <<raw, removed, cv_f>>
    /\ UNCHANGED <<dvars, tvars, mvars, mode, cv_args, tree0, cv_exit, jobs, cv_j, csv_files, failed_files,
                   total_files, parquet, exchange_info, fetches, attempts, read_back>>

\* conv.py 243-247: csv_file.unlink(); a failure is logged as a warning.
ConvRemove ==
    /\ mode = "file"
    /\ cv_pc = "remove"
    /\ \/ /\ raw' = raw \ {CurFile}
          /\ removed' = removed \cup {[file |-> CurFile, out |-> PerFileOutput(CurFile)]}
       \/ UNCHANGED <<raw, removed>>
    /\ NextFile
    /\ UNCHANGED <<dvars, tvars, mvars, mode, cv_args, tree0, cv_exit, jobs, cv_j, csv_files, failed_files,
                   total_files, parquet, exchange_info, fetches, attempts, raised,
                   read_back>>

\* Mutant: the first failed file ends the run's loops.
ConvExceptBreak ==
    /\ mode = "file"
    /\ cv_pc = "except"
    /\ failed_files' = Append(failed_files, CurFile)
    /\ cv_pc' = "summary"
    /\ UNCHANGED <<dvars, tvars, mvars, mode, cv_args, tree0, cv_exit, jobs, cv_j, csv_files, cv_f,
                   total_files, raw, parquet, exchange_info, fetches, attempts, raised,
                   removed, read_back>>

\* conv.py 248-250: the file is recorded as failed and the loop goes on.
ConvExcept ==
    /\ mode = "file"
    /\ cv_pc = "except"
    /\ failed_files' = Append(failed_files, CurFile)
    /\ NextFile
    /\ UNCHANGED <<dvars, tvars, mvars, mode, cv_args, tree0, cv_exit, jobs, cv_j, csv_files, total_files,
                   raw, parquet, exchange_info, fetches, attempts, raised, removed,
                   read_back>>

\* conv.py 252-259: Exit(1) if any file failed.
ConvSummary ==
    /\ mode = "file"
    /\ cv_pc = "summary"
    /\ cv_exit' = IF failed_files # <<>> THEN 1 ELSE 0
    /\ cv_pc' = "done"
    /\ UNCHANGED <<dvars, tvars, mvars, mode, cv_args, tree0, jobs, cv_j, csv_files, cv_f, failed_files,
                   total_files, raw, parquet, exchange_info, fetches, attempts, raised,
                   removed, read_back>>

NextPerFile ==
    \/ ConvStart
    \/ ConvNextJob
    \/ ConvRead
    \/ ConvNormalize
    \/ ConvWrite
    \/ ConvRemove
    \/ ConvExcept
    \/ ConvSummary

\* ---- batch mode ----

\* converter.py 147-170: the job set; none -> Exit(1), which the function's own
\* except clause catches and raises again.
BatchStart ==
    /\ mode = "batch"
    /\ cv_pc = "start"
    /\ jobs' = DetermineJobs(raw, cv_args)
    /\ cv_pc' = IF jobs' = <<>> THEN "except" ELSE "job"
    /\ UNCHANGED <<dvars, tvars, mvars, mode, cv_args, tree0, cv_exit, cv_j, csv_files, cv_f, failed_files,
                   total_files, raw, parquet, exchange_info, fetches, attempts, raised,
                   removed, read_back>>

\* converter.py 172-181: the next pair and its files; after the last pair the
\* function returns normally.
BatchNextJob ==
    /\ mode = "batch"
    /\ cv_pc = "job"
    /\ IF cv_j = Len(jobs)
       THEN /\ cv_pc' = "done"
            /\ cv_exit' = 0
            /\ UNCHANGED <<cv_j, csv_files>>
       ELSE LET j == jobs[cv_j + 1]
                found == find_csv_files(raw, j[1], j[2], cv_args)
            IN  /\ cv_j' = cv_j + 1
                /\ csv_files' = found
                /\ cv_pc' = IF found = <<>> THEN "job" ELSE "read"
                /\ UNCHANGED cv_exit
    /\ UNCHANGED <<dvars, tvars, mvars, mode, cv_args, tree0, jobs, cv_f, failed_files, total_files, raw,
                   parquet, exchange_info, fetches, attempts, raised, removed, read_back>>

\* An exception leaves the try block while a pair is being converted.
RaiseJob ==
    /\ cv_pc' = "except"
    /\ raised' = raised \cup {CurJob}

\* converter.py 182: pl.concat([pl.read_csv(f) for f in csv_files])
BatchRead ==
    /\ mode = "batch"
    /\ cv_pc = "read"
    /\ attempts' = Append(attempts, CurJob)
    /\ \/ cv_pc' = "exchange_info" /\ UNCHANGED raised
       \/ RaiseJob
    /\ UNCHANGED <<dvars, tvars, mvars, mode, cv_args, tree0, cv_exit, jobs, cv_j, csv_files, cv_f,
                   failed_files, total_files, raw, parquet, exchange_info, fetches,
                   removed, read_back>>

\* converter.py 183-184 and 49-58: get_exchange_info() answers with the
\* document, or with None after a RequestException.
BatchExchangeInfo ==
    /\ mode = "batch"
    /\ cv_pc = "exchange_info"
    /\ fetches' = fetches + 1
    /\ exchange_info' \in {"None", "document"}
    /\ cv_pc' = "cast"
    /\ UNCHANGED <<dvars, tvars, mvars, mode, cv_args, tree0, cv_exit, jobs, cv_j, csv_files, cv_f,
                   failed_files, total_files, raw, parquet, attempts, raised, removed,
                   read_back>>

\* converter.py 185-205: the float columns cast to Decimal
BatchCast ==
    /\ mode = "batch"
    /\ cv_pc = "cast"
    /\ \/ cv_pc' = "write" /\ UNCHANGED raised
       \/ RaiseJob
    /\ UNCHANGED <<dvars, tvars, mvars, mode, cv_args, tree0, cv_exit, jobs, cv_j, csv_files, cv_f,
                   failed_files, total_files, raw, parquet, exchange_info, fetches,
                   attempts, removed, read_back>>

\* converter.py 206-210: df.write_parquet(output_file)
BatchWrite ==
    /\ mode = "batch"
    /\ cv_pc = "write"
    /\ \/ /\ parquet' = Put(parquet, BatchOutput(CurJob, cv_args), "complete")
          /\ cv_pc' = IF cv_args.rm THEN "remove" ELSE "job"
          /\ UNCHANGED raised
       \/ /\ parquet' = Put(parquet, BatchOutput(CurJob, cv_args), "partial")
          /\ RaiseJob
       \/ /\ RaiseJob
          /\ UNCHANGED parquet
    /\ UNCHANGED <<dvars, tvars, mvars, mode, cv_args, tree0, cv_exit, jobs, cv_j, csv_files, cv_f,
                   failed_files, total_files, raw, exchange_info, fetches, attempts,
                   removed, read_back>>

\* converter.py 210-216: every file of the pair unlinked; each failure is
\* logged as a warning.
BatchRemove ==
    /\ mode = "batch"
    /\ cv_pc = "remove"
    /\ \E gone \in SUBSET Range(csv_files) :
        /\ raw' = raw \ gone
        /\ removed' = removed \cup
                        {[file |-> f, out |-> BatchOutput(CurJob, cv_args)] : f \in gone}
    /\ cv_pc' = "job"
    /\ UNCHANGED <<dvars, tvars, mvars, mode, cv_args, tree0, cv_exit, jobs, cv_j, csv_files, cv_f,
                   failed_files, total_files, parquet, exchange_info, fetches, attempts,
                   raised, read_back>>

\* converter.py 217-219: any exception ends the run with Exit(1).
BatchExcept ==
    /\ mode = "batch"
    /\ cv_pc = "except"
    /\ cv_exit' = 1
    /\ cv_pc' = "done"
    /\ UNCHANGED <<dvars, tvars, mvars, mode, cv_args, tree0, jobs, cv_j, csv_files, cv_f, failed_files,
                   total_files, raw, parquet, exchange_info, fetches, attempts, raised,
                   removed, read_back>>

NextBatch ==
    \/ BatchStart
    \/ BatchNextJob
    \/ BatchRead
    \/ BatchExchangeInfo
    \/ BatchCast
    \/ BatchWrite
    \/ BatchRemove
    \/ BatchExcept

NextConvert == NextPerFile \/ NextBatch

SpecConvert == InitConvert /\ [][NextConvert]_vars

----------------------------------------------------------------------------
\* The typing of one file's columns: which decimal scale a column is cast
\* with.  "cli" is the loop of bn_converter/conv.py (172-197), "meta" the loop
\* of bn_downloader/converter.py (155-186).  A cell's text is the sequence of
\* its characters.

\* head(10)
SampleSize == 10

\* "scale = 8" / "else 8"
DefaultScale == 8

Null == <<"null">>

Digits == {"1", "2", "3", "4", "5"}

\* str.isdigit()
isdigit(x) == x # <<>> /\ \A k \in DOMAIN x : x[k] \in Digits

\* x.replace(".", "", 1)
RECURSIVE ReplaceFirstDot(_)
ReplaceFirstDot(x) ==
    IF x = <<>> THEN <<>>
    ELSE IF Head(x) = "." THEN Tail(x)
    ELSE <<Head(x)>> \o ReplaceFirstDot(Tail(x))

\* x.split(".")[-1]
RECURSIVE LastPart(_)
LastPart(x) ==
    IF \E k \in DOMAIN x : x[k] = "." THEN LastPart(Tail(x)) ELSE x

\* len(x.split(".")[-1]) if "." in x else 0
FractionLen(x) ==
    IF \E k \in DOMAIN x : x[k] = "." THEN Len(LastPart(x)) ELSE 0

\* The cells a column may hold.
TextValues ==
    { <<"1", "2">>, <<"1", ".", "2", "3", "4", "5">>, <<"1", ".", "5">>, <<"1", ".">>,
      <<".">>, <<"-", "1", ".", "5">>, <<"a", "b", "c">>, Null }

Repeat(v, n) == [k \in 1..n |-> v]

\* A column's cells: a run of one value, as long as the sample window or one
\* shorter or empty, then one more cell.
ValueLists ==
    { Repeat(a, n) \o <<b>> : a \in TextValues, b \in TextValues,
                              n \in {0, SampleSize - 1, SampleSize} }

Utf8 == [kind |-> "Utf8", scale |-> NoneInt]

Float64 == [kind |-> "Float64", scale |-> NoneInt]

Int64 == [kind |-> "Int64", scale |-> NoneInt]

Decimal(scale) == [kind |-> "Decimal", scale |-> scale]

PRICE_COLS == {"price", "open", "high", "low", "close"}

QTY_COLS == {"qty", "quantity", "volume", "quote_asset_volume",
             "taker_buy_base_asset_volume", "taker_buy_quote_asset_volume"}

TextColumns(names) ==
    { [name |-> n, dtype |-> Utf8, values |-> v] : n \in names, v \in ValueLists }

\* Data frames of one to MaxCols columns: any first column, then columns of
\* a few kinds.
Frames(first, rest) ==
    UNION { { <<c>> \o r : c \in first, r \in [1..n -> rest] } : n \in 0..(MaxCols - 1) }

\* The frame conv.py has after renaming and schema typing (names in PascalCase).
CliFrames ==
    Frames(TextColumns({"Price", "Qty"}) \cup
               {[name |-> "Price", dtype |-> Float64, values |-> <<<<"1", ".", "5">>>>]},
           { [name |-> "Id", dtype |-> Int64, values |-> <<<<"1", "2">>>>],
             [name |-> "Qty", dtype |-> Utf8, values |-> <<<<"1", ".", "5">>>>] })

\* The frame read_csv_with_preview returns: every column cast to Utf8.
MetaFrames ==
    Frames(TextColumns({"price", "qty", "Price", "id"}),
           { [name |-> "id", dtype |-> Utf8, values |-> <<<<"1", "2">>>>],
             [name |-> "qty", dtype |-> Utf8, values |-> <<<<"1", ".", "5">>>>] })

\* What the exchangeInfo endpoint may answer.
NoneInfo == [kind |-> "None", symbols |-> <<>>]

Unfetched == [kind |-> "unfetched", symbols |-> <<>>]

Served ==
    { [kind |-> "doc", symbols |->
          << [symbol |-> "ETHUSDT", pricePrecision |-> 4, quantityPrecision |-> 1],
             [symbol |-> "BTCUSDT", pricePrecision |-> 2, quantityPrecision |-> 3] >>],
      [kind |-> "doc", symbols |->
          << [symbol |-> "BTCUSDT", pricePrecision |-> NoneInt, quantityPrecision |-> 3] >>],
      [kind |-> "doc", symbols |->
          << [symbol |-> "ETHUSDT", pricePrecision |-> 4, quantityPrecision |-> 1] >>],
      [kind |-> "no symbols key", symbols |-> <<>>],
      [kind |-> "ConnectionError", symbols |-> <<>>],
      [kind |-> "HTTPError", symbols |-> <<>>] }

\* Mutant: a failed request passed on to the caller.
get_exchange_info_raising(answer) == answer

\* get_exchange_info: the document, or None after a RequestException.
get_exchange_info(answer) ==
    IF answer.kind \in {"ConnectionError", "HTTPError"} THEN NoneInfo ELSE answer

\* get_symbol_precision, for None or a document with a "symbols" list
get_symbol_precision(info, symbol) ==
    IF info.kind = "None" THEN <<NoneInt, NoneInt>>
    ELSE LET hits == SelectSeq(info.symbols, LAMBDA s : s.symbol = symbol)
         IN  IF hits = <<>> THEN <<NoneInt, NoneInt>>
             ELSE <<hits[1].pricePrecision, hits[1].quantityPrecision>>

\* Mutant: the whole column taken as the sample.
SampleWholeColumn(values) == SelectSeq(values, LAMBDA v : v # Null)

\* df[col].drop_nulls().head(10).to_list()
Sample(values) ==
    LET kept == SelectSeq(values, LAMBDA v : v # Null)
    IN  SubSeq(kept, 1, Min(SampleSize, Len(kept)))

\* all(isinstance(x, str) and x.replace(".", "", 1).isdigit() for x in sample)
AllNumerals(sample) == \A k \in DOMAIN sample : isdigit(ReplaceFirstDot(sample[k]))

\* max(len(x.split(".")[-1]) if "." in x else 0 for x in sample), sample not empty
MaxScale(sample) ==
    CHOOSE m \in {FractionLen(sample[k]) : k \in DOMAIN sample} :
        \A k \in DOMAIN sample : FractionLen(sample[k]) <= m

\* How a strict cast of text to Decimal(scale) can end.  Text that is no
\* number makes it raise; for a numeral ending in "." or holding more fraction
\* digits than the scale, the library version decides.
Unsigned(v) == IF v # <<>> /\ Head(v) = "-" THEN Tail(v) ELSE v

CastOutcomes(values, scale) ==
    LET cells == {values[k] : k \in DOMAIN values} \ {Null}
        bad == {v \in cells : ~isdigit(ReplaceFirstDot(Unsigned(v)))}
        unsure == {v \in cells : v[Len(v)] = "." \/ FractionLen(v) > scale}
    IN  IF bad # {} THEN {"raise"}
        ELSE IF unsure # {} THEN {"ok", "raise"}
        ELSE {"ok"}

InitTyping ==
    /\ DownloadIdle
    /\ ConvIdle
    /\ MigrateIdle
    /\ pipeline \in {"cli", "meta"}
    /\ ty_sym = "BTCUSDT"
    /\ served \in Served
    /\ ty_info = Unfetched
    /\ ty_prec = <<NoneInt, NoneInt>>
    /\ df0 \in IF pipeline = "cli" THEN CliFrames ELSE MetaFrames
    /\ df = df0
    /\ ty_k = 1
    /\ tried = [k \in DOMAIN df0 |-> NoneInt]
    /\ ty_pc = IF pipeline = "cli" THEN "column" ELSE "fetch"

\* bn_downloader/converter.py 155: exchange_info = get_exchange_info().  An
\* exception leaving the call would end the run in the handler at 197-199.
TyFetch ==
    /\ pipeline = "meta"
    /\ ty_pc = "fetch"
    /\ IF get_exchange_info(served).kind \in {"ConnectionError", "HTTPError"}
       THEN ty_pc' = "aborted" /\ UNCHANGED ty_info
       ELSE ty_pc' = "precision" /\ ty_info' = get_exchange_info(served)
    /\ UNCHANGED <<dvars, cvars, mvars, pipeline, ty_sym, served, ty_prec, df0, df, ty_k, tried>>

\* bn_downloader/converter.py 156: get_symbol_precision(exchange_info, sym);
\* a document without "symbols" raises KeyError, which ends the run (197-199).
TyPrecision ==
    /\ pipeline = "meta"
    /\ ty_pc = "precision"
    /\ IF ty_info.kind = "no symbols key"
       THEN ty_pc' = "aborted" /\ UNCHANGED ty_prec
       ELSE ty_pc' = "column" /\ ty_prec' = get_symbol_precision(ty_info, ty_sym)
    /\ UNCHANGED <<dvars, cvars, mvars, pipeline, ty_sym, served, ty_info, df0, df, ty_k, tried>>

\* The column loop moves on; after the last column the file is written.
NextColumn ==
    IF ty_k < Len(df)
    THEN ty_k' = ty_k + 1 /\ ty_pc' = "column"
    ELSE ty_pc' = "write" /\ UNCHANGED ty_k

\* df.with_columns(pl.col(col_name).cast(pl.Decimal(precision=None, scale=scale)))
\* inside try/except: a cast that raises leaves the column as it was.
CastColumn(scale) ==
    /\ tried' = [tried EXCEPT ![ty_k] = scale]
    /\ \E outcome \in CastOutcomes(df[ty_k].values, scale) :
          df' = IF outcome = "ok"
                THEN [df EXCEPT ![ty_k].dtype = Decimal(scale)]
                ELSE df

\* bn_downloader/converter.py 160-176: the scale of a price or quantity column
ResolveScale(col_name, price_precision, qty_precision) ==
    IF col_name \in PRICE_COLS /\ price_precision # NoneInt THEN price_precision
    ELSE IF col_name \in QTY_COLS /\ qty_precision # NoneInt THEN qty_precision
    ELSE DefaultScale

\* bn_downloader/converter.py 159-186: one column of the loop
TyCast ==
    /\ pipeline = "meta"
    /\ ty_pc = "column"
    /\ IF df[ty_k].name \in PRICE_COLS \cup QTY_COLS
       THEN CastColumn(ResolveScale(df[ty_k].name, ty_prec[1], ty_prec[2]))
       ELSE UNCHANGED <<df, tried>>
    /\ NextColumn
    /\ UNCHANGED <<dvars, cvars, mvars, pipeline, ty_sym, served, ty_info, ty_prec, df0>>

\* conv.py 181-185: the scale guessed from a sample of numerals
GuessScale(sample) ==
    IF MaxScale(sample) > 0 THEN MaxScale(sample) ELSE DefaultScale

\* conv.py 173-197: one column of the loop.  max() of an empty sample raises
\* ValueError, which the inner except logs.
TyGuess ==
    /\ pipeline = "cli"
    /\ ty_pc = "column"
    /\ LET sample == Sample(df[ty_k].values)
       IN  IF df[ty_k].dtype = Utf8 /\ AllNumerals(sample) /\ sample # <<>>
           THEN CastColumn(GuessScale(sample))
           ELSE UNCHANGED <<df, tried>>
    /\ NextColumn
    /\ UNCHANGED <<dvars, cvars, mvars, pipeline, ty_sym, served, ty_info, ty_prec, df0>>

\* df.write_parquet(output_file)
TyWrite ==
    /\ ty_pc = "write"
    /\ ty_pc' = "done"
    /\ UNCHANGED <<dvars, cvars, mvars, pipeline, ty_sym, served, ty_info, ty_prec, df0, df,
                   ty_k, tried>>

NextTyping ==
    \/ TyFetch
    \/ TyPrecision
    \/ TyCast
    \/ TyGuess
    \/ TyWrite

SpecTyping == InitTyping /\ [][NextTyping]_vars

----------------------------------------------------------------------------
\* The schema typing of one file: conv.py 162-171 with the schema of
\* aggTrades (schemas.py 24-34), followed by the decimal guess and the write.

UInt64 == [kind |-> "UInt64", scale |-> NoneInt]

Boolean == [kind |-> "Boolean", scale |-> NoneInt]

\* AGGTRADES_SCHEMA, in the order of its items
AGGTRADES_SCHEMA ==
    << [name |-> "AggTradeId", type |-> UInt64],
       [name |-> "Price", type |-> Utf8],
       [name |-> "Quantity", type |-> Utf8],
       [name |-> "FirstTradeId", type |-> UInt64],
       [name |-> "LastTradeId", type |-> UInt64],
       [name |-> "TransactTime", type |-> UInt64],
       [name |-> "IsBuyerMaker", type |-> Boolean] >>

\* A column of identifiers as read_csv infers it: whole numbers, whole numbers
\* with a negative one, or text.
IdColumns(n) ==
    { [name |-> n, dtype |-> Int64, values |-> <<<<"1", "2">>>>],
      [name |-> n, dtype |-> Int64, values |-> <<<<"-", "1">>>>],
      [name |-> n, dtype |-> Utf8, values |-> <<<<"a", "b", "c">>>>] }

\* A column of amounts as read_csv infers it: floats, or text.
AmountColumns(n) ==
    { [name |-> n, dtype |-> Float64, values |-> <<<<"1", ".", "5">>>>],
      [name |-> n, dtype |-> Utf8, values |-> <<<<"a", "b", "c">>>>] }

\* The frames of an aggTrades file after the renaming of line 160.
AggTradesFrames ==
    { <<a, p, q, f, l, t, [name |-> "IsBuyerMaker", dtype |-> Boolean, values |-> <<<<"t">>>>]>> :
        a \in IdColumns("AggTradeId"), p \in AmountColumns("Price"),
        q \in AmountColumns("Quantity"), f \in IdColumns("FirstTradeId"),
        l \in IdColumns("LastTradeId"), t \in IdColumns("TransactTime") }

\* pl.col(col_name).cast(col_type), strict: anything becomes text; only
\* non-negative whole numbers become UInt64.
SchemaCastOutcome(col, type) ==
    IF type = UInt64 /\ \E k \in DOMAIN col.values : ~isdigit(col.values[k])
    THEN "raise"
    ELSE "ok"

InitSchema ==
    /\ DownloadIdle
    /\ ConvIdle
    /\ MigrateIdle
    /\ pipeline = "cli"
    /\ ty_sym = "BTCUSDT"
    /\ served = NoneInfo
    /\ ty_info = Unfetched
    /\ ty_prec = <<NoneInt, NoneInt>>
    /\ df0 \in AggTradesFrames
    /\ df = df0
    /\ ty_k = 1
    /\ tried = [k \in DOMAIN df0 |-> NoneInt]
    /\ ty_pc = "schema"

\* conv.py 167-169: one item of the schema.  df is replaced by the frame with
\* the column cast before the next item is looked at; a cast that raises
\* leaves the loop with df as the items before it made it.
SchemaItem ==
    /\ pipeline = "cli"
    /\ ty_pc = "schema"
    /\ LET item == AGGTRADES_SCHEMA[ty_k]
           hit == {c \in DOMAIN df : df[c].name = item.name}
       IN  IF \E c \in hit : SchemaCastOutcome(df[c], item.type) = "raise"
           THEN /\ ty_pc' = "schema_failed"
                /\ UNCHANGED <<df, ty_k>>
           ELSE /\ df' = [c \in DOMAIN df |->
                            IF c \in hit THEN [df[c] EXCEPT !.dtype = item.type] ELSE df[c]]
                /\ IF ty_k < Len(AGGTRADES_SCHEMA)
                   THEN ty_k' = ty_k + 1 /\ UNCHANGED ty_pc
                   ELSE ty_k' = 1 /\ ty_pc' = "column"
    /\ UNCHANGED <<dvars, cvars, mvars, pipeline, ty_sym, served, ty_info, ty_prec, df0, tried>>

\* conv.py 170-171: the warning; the decimal guess is next.
SchemaExcept ==
    /\ pipeline = "cli"
    /\ ty_pc = "schema_failed"
    /\ ty_pc' = "column"
    /\ ty_k' = 1
    /\ UNCHANGED <<dvars, cvars, mvars, pipeline, ty_sym, served, ty_info, ty_prec, df0, df, tried>>

NextSchema ==
    \/ SchemaItem
    \/ SchemaExcept
    \/ TyGuess
    \/ TyWrite

SpecSchema == InitSchema /\ [][NextSchema]_vars

----------------------------------------------------------------------------
\* Migration runs: migrate() of bn_converter/conv.py, run once and then again
\* on the tree the first run left.

ParquetPaths == {"BTCUSDT.parquet", "ETHUSDT.parquet"}

ColumnNames == {"quantity", "Quantity", "Qty", "open_time", "OpenTime"}

\* The column names one parquet file may have.
ColumnSets == {c \in SUBSET ColumnNames : Cardinality(c) \in 1..MaxCols}

\* The parquet files under DATA_DIR.
ParquetTrees ==
    UNION { [ps -> ColumnSets] : ps \in {q \in SUBSET ParquetPaths : Cardinality(q) <= MaxFiles} }

\* list(DATA_DIR.glob("**/*.parquet")): the files in the order the file
\* system lists them.
Listings(tree) ==
    { l \in UNION {[1..n -> DOMAIN tree] : n \in {Cardinality(DOMAIN tree)}} :
        \A a, b \in DOMAIN l : a # b => l[a] # l[b] }

InitMigrate ==
    /\ DownloadIdle
    /\ ConvIdle
    /\ TypingIdle
    /\ mg_pc = "start"
    /\ mg_run = 1
    /\ pq0 \in ParquetTrees
    /\ pq = pq0
    /\ parquet_files = <<>>
    /\ rewrites = {}

\* conv.py 266-272: the listing; nothing found -> return.
MigrateStart ==
    /\ mg_pc = "start"
    /\ \E l \in Listings(pq) :
          /\ parquet_files' = l
          /\ mg_pc' = IF l = <<>> THEN "returned" ELSE "describe"
    /\ UNCHANGED <<dvars, cvars, tvars, mg_run, pq0, pq, rewrites>>

\* Mutant: the description set on a bar object, and the file written back
\* whether or not a column name changed.
MigrateDescribeAndRewrite ==
    /\ mg_pc = "describe"
    /\ rewrites' = rewrites \cup {[run |-> mg_run, file |-> parquet_files[1]]}
    /\ mg_pc' = "returned"
    /\ UNCHANGED <<dvars, cvars, tvars, mg_run, pq0, pq, parquet_files>>

\* conv.py 274-275: the loop takes the first file and calls
\* tqdm.set_description(f"Processing: ...").  tqdm here is the class
\* (from tqdm import tqdm), so the text is bound to self and the method's
\* "self.desc = ..." raises AttributeError on a str.  The call stands before
\* the try of line 276: the exception leaves migrate() with no file read.
MigrateDescribe ==
    /\ mg_pc = "describe"
    /\ mg_pc' = "raised"
    /\ UNCHANGED <<dvars, cvars, tvars, mg_run, pq0, pq, parquet_files, rewrites>>

\* The command is given a second time.
MigrateAgain ==
    /\ mg_run = 1
    /\ mg_pc \in {"returned", "raised"}
    /\ mg_run' = 2
    /\ mg_pc' = "start"
    /\ parquet_files' = <<>>
    /\ UNCHANGED <<dvars, cvars, tvars, pq0, pq, rewrites>>

NextMigrate ==
    \/ MigrateStart
    \/ MigrateDescribe
    \/ MigrateAgain

SpecMigrate == InitMigrate /\ [][NextMigrate]_vars

----------------------------------------------------------------------------
\* Properties of the download engine (checked under SpecDownload).

Failed(i) == pc[i] \in {"finally", "done"} /\ reason[i] # ""

Succeeded(i) == pc[i] = "done" /\ reason[i] = ""

Ended(i) == pc[i] = "done"

EntryPaths(t) ==
    { PathOf(DestDir(t), e) : e \in UNION {Range(a.entries) : a \in RemoteArchives(t)} }

\* C1: a job whose archive digest differs from the checksum file's token
\* fails with a checksum mismatch, and from then on to the end of the job the
\* archive and the checksum file are on disk, no entry of the archive has been
\* extracted and the job's canonical files are as they were before the job.
C1_MismatchLeavesPair ==
    \A i \in Jobs :
        reason[i] = "ChecksumMismatch" =>
            /\ Failed(i)
            /\ dest_path_zip(tasks[i]) \in DOMAIN fs
            /\ dest_path_checksum(tasks[i]) \in DOMAIN fs
            /\ fs[dest_path_checksum(tasks[i])][1] # fs[dest_path_zip(tasks[i])].sha
            /\ \A p \in EntryPaths(tasks[i]) : ContentAt(fs, p) = ContentAt(pre[i], p)
            /\ Snapshot(fs, tasks[i]) = pre[i]

C1_Witness ==
    \E i \in Jobs : reason[i] = "ChecksumMismatch" /\ Ended(i)

\* C2 (as amended): verification passes exactly when the first token of the
\* checksum file is, character for character, the archive's lower-case hex
\* digest; a token that differs from it, be it by letter case only, is a
\* mismatch.
C2_ExactMatch ==
    \A i \in Jobs :
        LET zip == dest_path_zip(tasks[i])
            sum == dest_path_checksum(tasks[i])
        IN  /\ pc[i] = "extract" => fs[sum][1] = calculated_checksum(fs[zip])
            /\ reason[i] = "ChecksumMismatch" =>
                   fs[sum] # <<>> /\ fs[sum][1] # calculated_checksum(fs[zip])

\* A correct digest written in upper case has been rejected.
C2_Witness ==
    \E i \in Jobs :
        /\ reason[i] = "ChecksumMismatch"
        /\ fs[dest_path_checksum(tasks[i])][1] = Upper(fs[dest_path_zip(tasks[i])].sha)

\* C2 (as stated): verification passes exactly when the first token equals the
\* digest compared case-insensitively.
C2_CaseInsensitive ==
    \A i \in Jobs :
        LET zip == dest_path_zip(tasks[i])
            sum == dest_path_checksum(tasks[i])
        IN  /\ pc[i] = "extract" => Lower(fs[sum][1]) = calculated_checksum(fs[zip])
            /\ reason[i] = "ChecksumMismatch" =>
                   Lower(fs[sum][1]) # calculated_checksum(fs[zip])

\* C3: a job that ended in failure, at whichever step, has left the file at
\* its canonical raw path exactly as it was before the job started (stated
\* for the jobs served the vendor's usual one-entry archive, or none).
C3_FailureLeavesCanonical ==
    \A i \in Jobs :
        /\ Ended(i)
        /\ reason[i] # ""
        /\ fetched[i] \in {NoArchive, [entries |-> <<StdEntry(tasks[i])>>, valid |-> TRUE, sha |-> "3a7f"]}
        => Snapshot(fs, tasks[i]) = pre[i]

\* C4: after a successful job for a single-entry archive the destination
\* directory holds the canonical raw file and holds neither the archive, nor
\* the checksum file, nor a file under the entry's own name when that name is
\* not the canonical one.
C4_SuccessLeavesOnlyCanonical ==
    \A i \in Jobs :
        Succeeded(i) /\ Len(fetched[i].entries) = 1 =>
            LET t == tasks[i]
                entry == fetched[i].entries[1]
                canon == NewFileName(entry, has_interval(t), t.symbol)
            IN  /\ ContentAt(fs, PathOf(DestDir(t), canon)) = "csv"
                /\ dest_path_zip(t) \notin DOMAIN fs
                /\ dest_path_checksum(t) \notin DOMAIN fs
                /\ entry # canon => PathOf(DestDir(t), entry) \notin DOMAIN fs

C4_Witness ==
    \E i \in Jobs :
        /\ Succeeded(i)
        /\ Len(fetched[i].entries) = 1
        /\ fetched[i].entries[1] #
               NewFileName(fetched[i].entries[1], has_interval(tasks[i]), tasks[i].symbol)
        /\ pre[i] # Snapshot(fs, tasks[i])

\* C5: when download returns, every job of the expanded job set has reached a
\* terminal outcome, whatever its siblings did: a failed job neither aborts
\* the run nor cancels a sibling.
C5_AllJobsEndBeforeReturn ==
    main_pc = "returned" =>
        /\ Jobs = DOMAIN BuildTasks(cfg)
        /\ \A i \in Jobs : Ended(i) /\ (Succeeded(i) \/ Failed(i))

C5_Witness ==
    /\ main_pc = "returned"
    /\ \E i, k \in Jobs : Failed(i) /\ Succeeded(k)

C7_FailureReflectedInExit ==
    main_pc = "returned" /\ (\E i \in Jobs : Failed(i)) => exit_code # 0

----------------------------------------------------------------------------
\* Properties of the conversion runs (checked under SpecConvert).

\* The raw files find_csv_files yields for pair j on the tree the run started on.
FilesOfJob(j) == Range(find_csv_files(tree0, j[1], j[2], cv_args))

PastJobCheck == cv_pc = "done" /\ jobs # <<>>

C9_BatchAttemptsAll ==
    mode = "batch" /\ PastJobCheck =>
        \A k \in DOMAIN jobs : FilesOfJob(jobs[k]) # {} => jobs[k] \in Range(attempts)

\* C10 (as amended): raw files disappear only through the run's unlink calls;
\* none does unless rm is set; each was unlinked only after the output holding
\* its rows had been written completely; and while an attempt that raised is
\* being handled, the raw files of that attempt are all still on disk.
C10_RemoveOnlyAfterWrite ==
    mode # "idle" =>
        /\ tree0 \ raw = {r.file : r \in removed}
        /\ ~cv_args.rm => raw = tree0
        /\ \A r \in removed : ContentAt(parquet, r.out) = "complete"
        /\ mode = "file" /\ cv_pc = "except" => CurFile \in raw
        /\ mode = "batch" /\ cv_pc = "except" /\ jobs # <<>> => Range(csv_files) \subseteq raw

\* With rm set, one file failed and is kept while another was converted and removed.
C10_Witness ==
    /\ cv_pc = "done"
    /\ cv_args.rm
    /\ removed # {}
    /\ \E f \in raised : f \in raw

\* C10 (as stated): a raw file is removed only with rm set and only after its
\* output was written and then verified readable.
C10_RemoveOnlyAfterVerify ==
    \A r \in removed :
        /\ cv_args.rm
        /\ ContentAt(parquet, r.out) = "complete"
        /\ r.out \in read_back

\* C11: at every point of a run, each output path that exists under its final
\* name holds complete content (the previous one or the new one), never a
\* partially written file.
C11_NoPartialOutput ==
    \A p \in DOMAIN parquet : parquet[p] = "complete"

\* C12: every download run terminates, also when some remote request never
\* answers: the job waiting for it is eventually failed and counted, and
\* download returns.
C12_RunTerminates == <>(main_pc \in {"returned", "exited"})

\* Every path a job can create, write, rename or delete: its archive, its
\* checksum file, the entries of the archive it is served and the canonical
\* names derived from them.
JobPaths(t) ==
    {dest_path_zip(t), dest_path_checksum(t)} \cup EntryPaths(t) \cup CanonicalPaths(t)

Touched(p) ==
    \/ (p \in DOMAIN fs) # (p \in DOMAIN fs')
    \/ p \in DOMAIN fs /\ p \in DOMAIN fs' /\ fs[p] # fs'[p]

\* C13: every path a step creates, rewrites, renames or deletes belongs to the
\* job taking the step and to no other job of the run (jobs differing in
\* symbol, data type or date), whatever the interleaving.
C13_NoSharedPath ==
    [][\A p \in (DOMAIN fs) \cup (DOMAIN fs') :
          Touched(p) =>
              \E i \in Jobs :
                  /\ pc'[i] # pc[i]
                  /\ p \in JobPaths(tasks[i])
                  /\ \A k \in Jobs \ {i} :
                        tasks[k] # tasks[i] => p \notin JobPaths(tasks[k])]_vars

\* Two jobs for different symbols work in the same directory at the same
\* time, each with its own extracted entry.
C13_Witness ==
    \E i, k \in Jobs :
        /\ tasks[i].symbol # tasks[k].symbol
        /\ DestDir(tasks[i]) = DestDir(tasks[k])
        /\ pc[i] = "rename"
        /\ pc[k] = "rename"

\* The paths one execution of job t served archive a works on.
PathsFor(t, a) ==
    {dest_path_zip(t), dest_path_checksum(t)} \cup
    {PathOf(DestDir(t), e) : e \in Range(a.entries)} \cup
    {PathOf(DestDir(t), NewFileName(a.entries[1], has_interval(t), t.symbol))}

\* The destination directory after one successful execution of job t, served
\* archive a, in an empty directory.
SingleRun(t, a) ==
    RenameFile(ExtractAll(<<>>, DestDir(t), a.entries),
               PathOf(DestDir(t), a.entries[1]),
               PathOf(DestDir(t), NewFileName(a.entries[1], has_interval(t), t.symbol)))

\* C14: whatever an earlier execution of the same job left behind (its
\* canonical file after a success, a partial or mismatching archive and
\* checksum after a failure), a job that succeeds leaves the paths it works on
\* exactly as one successful execution in an empty directory leaves them.
C14_RerunSameAsSingleRun ==
    \A i \in Jobs :
        Succeeded(i) =>
            LET once == SingleRun(tasks[i], fetched[i])
            IN  \A p \in PathsFor(tasks[i], fetched[i]) :
                    /\ (p \in DOMAIN fs) = (p \in DOMAIN once)
                    /\ p \in DOMAIN once => fs[p] = once[p]

\* A job succeeded in a directory that held an older canonical file and the
\* mismatching archive and checksum of a failed attempt.
C14_Witness ==
    \E i \in Jobs :
        /\ Succeeded(i)
        /\ dest_path_zip(tasks[i]) \in DOMAIN fs0
        /\ dest_path_checksum(tasks[i]) \in DOMAIN fs0
        /\ ContentAt(fs0, PathOf(DestDir(tasks[i]),
               NewFileName(fetched[i].entries[1], has_interval(tasks[i]), tasks[i].symbol)))
             = "old csv"

\* C15: one conversion invocation asks the reference endpoint for the
\* precision metadata at most once, however many pairs and files it converts.
C15_AtMostOneFetch == fetches <= 1

\* The first two hyphen-delimited tokens of a name (all of it when it has
\* fewer), with ".csv" appended.
FirstTwoTokensCsv(name) ==
    IF Len(name) >= 2 THEN <<name[1], name[2] \o ".csv">> ELSE <<name[1] \o ".csv">>

\* C19: after a successful job the canonical raw file is there under the name
\* made of the first two hyphen-delimited tokens of the extracted entry's name
\* plus ".csv" when the data type carries an interval, and under
\* "{symbol}.csv" for every other data type.
C19_CanonicalName ==
    \A i \in Jobs :
        Succeeded(i) =>
            LET t == tasks[i]
                entry == fetched[i].entries[1]
                name == IF t.data_type \in {"klines", "indexPriceKlines", "premiumIndexKlines"}
                        THEN FirstTwoTokensCsv(entry)
                        ELSE <<t.symbol \o ".csv">>
            IN  ContentAt(fs, PathOf(DestDir(t), name)) = "csv"

\* Entry BTCUSDT-1d-2023-01-01.csv became BTCUSDT-1d.csv, and in the same run
\* a trades job produced BTCUSDT.csv.
C19_Witness ==
    \E i, k \in Jobs :
        /\ Succeeded(i)
        /\ Succeeded(k)
        /\ fetched[i].entries[1] = <<"BTCUSDT", "1d", "2023", "01", "01.csv">>
        /\ ContentAt(fs, PathOf(DestDir(tasks[i]), <<"BTCUSDT", "1d.csv">>)) = "csv"
        /\ tasks[k].data_type = "trades"
        /\ ContentAt(fs, PathOf(DestDir(tasks[k]), <<"BTCUSDT.csv">>)) = "csv"

----------------------------------------------------------------------------
\* Properties of the typing of columns (checked under SpecTyping).

Processed(k) == k < ty_k \/ ty_pc \in {"write", "done"}

FetchFailed == served.kind \in {"ConnectionError", "HTTPError"}

\* C16: when the metadata request fails, get_exchange_info hands back None,
\* get_symbol_precision then (None, None), the run is not aborted, and every
\* price-like and quantity-like column has its decimal cast called with the
\* default scale 8 (a column ends as Decimal(8) unless that cast itself
\* raises, which leaves it as text).
C16_FetchFailureUsesDefault ==
    pipeline = "meta" /\ FetchFailed =>
        /\ ty_pc # "aborted"
        /\ ty_pc # "fetch" => ty_info = NoneInfo
        /\ ty_pc \in {"column", "write", "done"} => ty_prec = <<NoneInt, NoneInt>>
        /\ \A k \in DOMAIN df :
              Processed(k) /\ df[k].name \in PRICE_COLS \cup QTY_COLS =>
                  /\ tried[k] = 8
                  /\ df[k].dtype \in {Decimal(8), Utf8}
                  /\ CastOutcomes(df[k].values, 8) = {"ok"} => df[k].dtype = Decimal(8)

\* After a failed request the file is written with a price and a quantity
\* column both at scale 8.
C16_Witness ==
    /\ pipeline = "meta"
    /\ FetchFailed
    /\ ty_pc = "done"
    /\ \E k, j \in DOMAIN df :
          /\ df[k].name = "price" /\ df[k].dtype = Decimal(8)
          /\ df[j].name = "qty" /\ df[j].dtype = Decimal(8)

\* The precisions the endpoint holds for the symbol during this invocation.
Known == get_symbol_precision(get_exchange_info(served), ty_sym)

\* C17: in the pipeline the command line drives, a price column ends as a
\* decimal of the symbol's price precision whenever the metadata has one, and
\* a quantity column as a decimal of its quantity precision.
C17_PrecisionFirst ==
    pipeline = "cli" /\ ty_pc = "done" /\ served.kind = "doc" =>
        \A k \in DOMAIN df :
            /\ df[k].name = "Price" /\ Known[1] # NoneInt => df[k].dtype = Decimal(Known[1])
            /\ df[k].name = "Qty" /\ Known[2] # NoneInt => df[k].dtype = Decimal(Known[2])

\* Digits with at most one "." among them, and at least one digit.
PlainNumeral(x) ==
    /\ Cardinality({k \in DOMAIN x : x[k] = "."}) <= 1
    /\ \A k \in DOMAIN x : x[k] = "." \/ x[k] \in Digits
    /\ \E k \in DOMAIN x : x[k] \in Digits

DigitsAfterDot(x) ==
    Cardinality({k \in DOMAIN x : \E d \in DOMAIN x : x[d] = "." /\ d < k})

\* The positions of the first SampleSize non-null cells of a column.
FirstNonNull(values) ==
    { k \in DOMAIN values :
        /\ values[k] # Null
        /\ Cardinality({j \in 1..(k - 1) : values[j] # Null}) < SampleSize }

\* C18: a text column whose first 10 non-null cells (at least one) are all
\* plain decimal numerals has its decimal cast called with the largest number
\* of digits after "." among those cells, or with 8 when that number is 0.
C18_SampleScale ==
    pipeline = "cli" =>
        \A k \in DOMAIN df :
            LET cells == FirstNonNull(df0[k].values)
            IN  /\ Processed(k)
                /\ df0[k].dtype = Utf8
                /\ cells # {}
                /\ \A c \in cells : PlainNumeral(df0[k].values[c])
                => \E m \in 0..5 :
                      /\ \A c \in cells : DigitsAfterDot(df0[k].values[c]) <= m
                      /\ \E c \in cells : DigitsAfterDot(df0[k].values[c]) = m
                      /\ tried[k] = IF m = 0 THEN 8 ELSE m

\* Ten cells "12" and then "1.2345": the eleventh cell is not sampled and the
\* column is cast with the default 8; in the same file a column holding just
\* "1.5" is cast with 1.
C18_Witness ==
    /\ pipeline = "cli"
    /\ ty_pc = "done"
    /\ \E k, j \in DOMAIN df :
          /\ df0[k].values = Repeat(<<"1", "2">>, 10) \o << <<"1", ".", "2", "3", "4", "5">> >>
          /\ tried[k] = 8
          /\ df0[j].values = << <<"1", ".", "5">> >>
          /\ tried[j] = 1

----------------------------------------------------------------------------
\* Properties of the migration runs (checked under SpecMigrate).

Legacy(c) == c \in {"quantity", "open_time", "Quantity"}

\* snake_to_pascal followed by the rename table, on the names of ColumnNames.
NewName(c) ==
    CASE c = "quantity"  -> "Qty"
      [] c = "Quantity"  -> "Qty"
      [] c = "open_time" -> "OpenTime"
      [] OTHER           -> c

MigrateEnded == mg_pc \in {"returned", "raised"}

\* C21: once migrate has ended on a non-empty tree, every file that had a
\* legacy column name has been rewritten with the new names, and every file
\* that had none has not been rewritten.
C21_LegacyRewritten ==
    (MigrateEnded /\ DOMAIN pq0 # {}) =>
        \A f \in DOMAIN pq0 :
            IF \E c \in pq0[f] : Legacy(c)
            THEN /\ pq[f] = {NewName(c) : c \in pq0[f]}
                 /\ \E r \in rewrites : r.file = f
            ELSE \A r \in rewrites : r.file # f

----------------------------------------------------------------------------
\* Properties of the job expansion (checked under SpecExpand).

\* C22: the job list holds exactly one job for every date of start..end,
\* every symbol and every data type, no job outside them, and the dates of
\* the list never increase.
C22_OneJobPerElement ==
    main_pc = "running" =>
        /\ \A dd \in cfg.start..cfg.end, s \in Range(cfg.symbols), t \in Range(cfg.data_types) :
              Cardinality({k \in Jobs : tasks[k] = [date |-> dd, symbol |-> s, data_type |-> t]}) = 1
        /\ \A k \in Jobs :
              /\ tasks[k].date \in cfg.start..cfg.end
              /\ tasks[k].symbol \in Range(cfg.symbols)
              /\ tasks[k].data_type \in Range(cfg.data_types)
        /\ \A k1, k2 \in Jobs : k1 < k2 => tasks[k1].date >= tasks[k2].date

\* A range of three days, two symbols and two data types has been expanded.
C22_Witness ==
    /\ main_pc = "running"
    /\ cfg.end - cfg.start = 2
    /\ Len(cfg.symbols) = 2
    /\ Len(cfg.data_types) = 2
    /\ Len(tasks) = 12

----------------------------------------------------------------------------
\* Further properties of the conversion runs (checked under SpecConvert).

\* The pairs of the raw files of the run's tree that lie in the date range and
\* agree with whichever of symbol and data type was given.
MatchingPairs ==
    { <<f.stem, f.data_type>> :
        f \in { x \in tree0 :
                  /\ cv_args.start <= x.date
                  /\ x.date <= (IF cv_args.end = NoneInt THEN cv_args.start ELSE cv_args.end)
                  /\ cv_args.symbol # None => x.stem = cv_args.symbol
                  /\ cv_args.data_type # NoType => x.data_type = cv_args.data_type } }

\* C23: the job set of a per-file run is the given pair when both symbol and
\* data type are given, otherwise the pairs found among the raw files of the
\* date range, filtered by what was given, each once; with an empty job set
\* the run ends with exit code 1 and has read, written and deleted nothing.
C23_JobSet ==
    mode = "file" /\ cv_pc # "start" =>
        /\ IF cv_args.symbol # None /\ cv_args.data_type # NoType
           THEN jobs = << <<cv_args.symbol, cv_args.data_type>> >>
           ELSE /\ Range(jobs) = MatchingPairs
                /\ Len(jobs) = Cardinality(MatchingPairs)
        /\ jobs = <<>> =>
              /\ cv_pc = "done"
              /\ cv_exit = 1
              /\ attempts = <<>>
              /\ parquet = <<>>
              /\ raw = tree0
              /\ removed = {}

\* Only the data type was given; of the two pairs with raw files in the range
\* one has that type and is the job set.
C23_Witness ==
    /\ mode = "file"
    /\ cv_pc = "done"
    /\ cv_args.symbol = None
    /\ cv_args.data_type = "klines"
    /\ Len(jobs) = 1
    /\ \E f \in tree0 : /\ f.data_type = "trades"
                        /\ cv_args.start <= f.date
                        /\ f.date <= end_dt(cv_args)

\* The output of raw file f is complete.
Converted(f) == ContentAt(parquet, PerFileOutput(f)) = "complete"

\* f was attempted once in the run.
AttemptedOnce(f) == Cardinality({k \in DOMAIN attempts : attempts[k] = f}) = 1

\* With rm set, f was converted and is still on disk: its unlink failed.
UnlinkFailed(f) == cv_args.rm /\ AttemptedOnce(f) /\ Converted(f) /\ f \in raw

\* C24: when a per-file run with rm set has ended and the unlink of a
\* converted raw file had failed, that file is not in failed_files, every file
\* found was still attempted, and the exit code is 1 only if failed_files
\* lists some file.
C24_UnlinkFailureOnlyLogged ==
    mode = "file" /\ cv_pc = "done" /\ jobs # <<>> =>
        \A f \in Range(attempts) :
            UnlinkFailed(f) =>
                /\ f \notin Range(failed_files)
                /\ total_files = Len(attempts)
                /\ (cv_exit = 1) <=> (failed_files # <<>>)
                /\ (\A g \in Range(attempts) : AttemptedOnce(g) /\ Converted(g)) => cv_exit = 0

\* The unlink of the first file failed; the second file was then converted
\* and removed, and the run ended with exit code 0.
C24_Witness ==
    /\ mode = "file"
    /\ cv_pc = "done"
    /\ Len(attempts) = 2
    /\ UnlinkFailed(attempts[1])
    /\ attempts[2] \notin raw
    /\ Converted(attempts[2])
    /\ cv_exit = 0

----------------------------------------------------------------------------
\* Properties of the schema typing (checked under SpecSchema).

SchemaNames == {AGGTRADES_SCHEMA[i].name : i \in DOMAIN AGGTRADES_SCHEMA}

\* C25: when a cast of the schema loop has raised and the failure is being
\* logged, the columns named in the schema are untyped: each has the type it
\* was read with, none a type the schema gave it.
C25_FailureLeavesUntyped ==
    ty_pc = "schema_failed" =>
        \A c \in DOMAIN df : df[c].name \in SchemaNames => df[c].dtype = df0[c].dtype

----------------------------------------------------------------------------
\* Further properties of the download engine (checked under SpecDownload).

\* The archive job i downloaded is on disk under the job's archive path.
ArchiveOnDisk(i) ==
    /\ fetched[i] \in RemoteArchives(tasks[i])
    /\ dest_path_zip(tasks[i]) \in DOMAIN fs
    /\ fs[dest_path_zip(tasks[i])] = fetched[i]

ChecksumOnDisk(i) == dest_path_checksum(tasks[i]) \in DOMAIN fs

\* The first token of the checksum file on disk is the digest of the archive.
VerificationPassed(i) ==
    /\ fs[dest_path_checksum(tasks[i])] # <<>>
    /\ fs[dest_path_checksum(tasks[i])][1] = fetched[i].sha

EntriesOnDisk(i) ==
    /\ fetched[i].entries # <<>>
    /\ \A e \in Range(fetched[i].entries) :
          ContentAt(fs, PathOf(DestDir(tasks[i]), e)) = "csv"

CanonicalOnDisk(i) ==
    /\ fetched[i].entries # <<>>
    /\ ContentAt(fs, PathOf(DestDir(tasks[i]),
                            NewFileName(fetched[i].entries[1], has_interval(tasks[i]),
                                        tasks[i].symbol))) = "csv"

\* C26: the steps of a job run in order and each only after the one before
\* succeeded: the checksum download with the whole archive on disk, the
\* verification with archive and checksum file on disk, the extraction with
\* the digests equal, the rename with the entries extracted, the two unlinks
\* with the canonical file in place; an archive that was downloaded is gone
\* only if the canonical file is there.
C26_StepOrder ==
    \A i \in Jobs :
        /\ pc[i] \in {"get_checksum", "verify", "extract", "rename", "unlink_checksum"}
              => ArchiveOnDisk(i)
        /\ pc[i] \in {"verify", "extract", "rename"} => ChecksumOnDisk(i)
        /\ pc[i] \in {"extract", "rename"} => VerificationPassed(i)
        /\ pc[i] = "rename" => EntriesOnDisk(i)
        /\ pc[i] \in {"unlink_checksum", "unlink_zip"} => CanonicalOnDisk(i)
        /\ pc[i] = "unlink_zip" => dest_path_checksum(tasks[i]) \notin DOMAIN fs
        /\ (fetched[i] \in RemoteArchives(tasks[i]) /\ dest_path_zip(tasks[i]) \notin DOMAIN fs)
              => CanonicalOnDisk(i)

\* A job is about to unlink its archive: the checksum file is gone, the
\* archive and the canonical file, renamed from an entry of another name, are
\* there.
C26_Witness ==
    \E i \in Jobs :
        /\ pc[i] = "unlink_zip"
        /\ ArchiveOnDisk(i)
        /\ CanonicalOnDisk(i)
        /\ dest_path_checksum(tasks[i]) \notin DOMAIN fs
        /\ PathOf(DestDir(tasks[i]), fetched[i].entries[1]) \notin DOMAIN fs

----------------------------------------------------------------------------
\* Further properties of the typing of columns (checked under SpecTyping).

\* Column k of the file was text whose sample is empty or holds something
\* that is no plain numeral, or its decimal cast raised.
Malformed(k) ==
    /\ df0[k].dtype = Utf8
    /\ \/ FirstNonNull(df0[k].values) = {}
       \/ \E j \in FirstNonNull(df0[k].values) : ~PlainNumeral(df0[k].values[j])
       \/ df[k].dtype = Utf8

\* C27: when the cli typing of a file has ended, every text column whose
\* sample was empty or malformed, or whose cast raised, was resolved to the
\* default scale: its decimal cast was called with scale 8.
C27_FallbackToDefault ==
    pipeline = "cli" /\ ty_pc = "done" =>
        \A k \in DOMAIN df0 : Malformed(k) => tried[k] = DefaultScale

----------------------------------------------------------------------------
\* Properties of the batch outputs (checked under SpecConvert).

\* C28: every output of a batch run is named by the range converted: the
\* end part of its name is a date, the start date when no end date was given.
C28_NamedByRange ==
    mode = "batch" =>
        \A p \in DOMAIN parquet :
            /\ p.start = cv_args.start
            /\ p.end \in ConvDays
            /\ cv_args.end = NoneInt => p.end = cv_args.start

\* C29: in a per-file run no raw file is attempted twice, total_files never
\* exceeds the number of raw files of the tree in the date range, and no file
\* is listed twice in failed_files.
C29_EachFileOnce ==
    mode = "file" =>
        /\ \A a, b \in DOMAIN attempts : a # b => attempts[a] # attempts[b]
        /\ total_files <= Cardinality({f \in tree0 : InRange(f, cv_args)})
        /\ \A a, b \in DOMAIN failed_files : a # b => failed_files[a] # failed_files[b]

\* C30: a text column the sample heuristic has cast to a decimal of scale s
\* holds no non-null cell, sampled or not, with more than s digits after the
\* decimal point.
C30_NoDigitsLost ==
    pipeline = "cli" =>
        \A k \in DOMAIN df :
            (df0[k].dtype = Utf8 /\ df[k].dtype.kind = "Decimal") =>
                \A j \in DOMAIN df0[k].values :
                    df0[k].values[j] # Null =>
                        DigitsAfterDot(df0[k].values[j]) <= df[k].dtype.scale

\* C31: a per-file run that has ended without attempting any raw file ended
\* with exit code 1, whether its pair was given or had to be discovered; it
\* did not end as a run whose files were all converted.
C31_NothingConvertedExitsNonZero ==
    (mode = "file" /\ cv_pc = "done" /\ attempts = <<>>) => cv_exit = 1

====
